---- MODULE Spec2Model ----
(***************************************************************************)
(* Model of goph419.binary (src/src/goph419/binary.py) and of the calls    *)
(* the demonstration script makes (src/examples/binary_example.py).        *)
(*                                                                         *)
(* Python lists are mutable objects passed by reference, so every list     *)
(* that crosses a function boundary lives in `heap` (a sequence of bit     *)
(* sequences; the index is the object's identity).  Lists that never       *)
(* leave the function that built them are plain values.  Python sequences  *)
(* are 0-based, TLA+ sequences 1-based: index k of the source is k+1 here. *)
(* Python str values are sequences of one-character strings.               *)
(***************************************************************************)
EXTENDS Integers, Sequences, FiniteSets, TLC

VARIABLES
    heap,       \* list objects: heap[i] is the content of the list with identity i
    _dec2bin,   \* module variable _dec2bin: digit character -> identity of its list
    pc,         \* "idle" | "ready" | "dec2bin" | "returned"
    op,         \* the library function of the current / last call
    a,          \* identity of the caller's first list argument (0: none)
    b,          \* identity of the caller's second list argument (0: none)
    x,          \* integer argument of the 32-bit encoders
    s,          \* string argument of dec2bin / dec2bin_array
    rem,        \* dec2bin local: list of identities of the digit groups
    bin,        \* dec2bin local: collected bits, least significant first
    ret         \* outcome of the last call

vars == <<heap, _dec2bin, pc, op, a, b, x, s, rem, bin, ret>>

----------------------------------------------------------------------------
(* Bounds of the model.                                                    *)

\* longest list a caller builds itself
MaxLen == 4
\* longest decimal digit string handed to dec2bin / dec2bin_array
MaxDigits == 2
\* width of the fixed-width encoders (32 in the source, reduced here)
Width == 5

----------------------------------------------------------------------------
(* Python built-ins used by the source.                                    *)

Bit == {0, 1}

DigitChars == <<"0", "1", "2", "3", "4", "5", "6", "7", "8", "9">>

DigitSet == {DigitChars[k] : k \in 1..10}

\* str(k) for a one-digit integer k
str(k) == DigitChars[k + 1]

\* int(c) for a one-character decimal digit string c
int(c) == CHOOSE k \in 0..9 : DigitChars[k + 1] = c

\* bool(e) for an int e
bool_int(e) == e # 0

\* bool(e) for a str e: only the empty string is falsy
bool_str(e) == e # ""

\* int(bool(e)) for an int e
int_bool(e) == IF bool_int(e) THEN 1 ELSE 0

Pow2(n) == IF n < 0 THEN 0 ELSE 2^n

Xor(p, q) == IF p = q THEN 0 ELSE 1

And(p, q) == IF p = 1 /\ q = 1 THEN 1 ELSE 0

Reverse(q) == [k \in 1..Len(q) |-> q[Len(q) + 1 - k]]

\* "".join(str(e) for e in q)
join_str(q) == [k \in 1..Len(q) |-> str(q[k])]

\* all bit lists of length n
BitSeq(n) == [1..n -> Bit]

BitLists == UNION {BitSeq(n) : n \in 0..MaxLen}

\* all decimal digit strings of length 1..MaxDigits
DigitStrings == UNION {[1..n -> DigitSet] : n \in 1..MaxDigits}

----------------------------------------------------------------------------
(* binary_int32_big, binary_int32_lit                                      *)

\* big_loop comparing with > where the source has >=
RECURSIVE big_loop_gt(_, _, _)
big_loop_gt(xx, p, d) ==
    IF p >= 0
    THEN LET bit == IF xx > 2^p THEN 1 ELSE 0
         IN  big_loop_gt(xx - bit * 2^p, p - 1, Append(d, bit))
    ELSE d

RECURSIVE big_loop(_, _, _)
big_loop(xx, p, d) ==
    IF p >= 0
    THEN LET bit == IF xx >= 2^p THEN 1 ELSE 0
         IN  big_loop(xx - bit * 2^p, p - 1, Append(d, bit))
    ELSE d

binary_int32_big(xx) == join_str(big_loop(xx, Width - 1, <<>>))

RECURSIVE lit_loop(_, _, _)
lit_loop(xx, p, d) ==
    IF p < Width
    THEN lit_loop(xx \div 2, p + 1, Append(d, xx % 2))
    ELSE d

\* binary_int32_lit counting p from 1
binary_int32_lit_from_1(xx) == join_str(lit_loop(xx, 1, <<>>))

binary_int32_lit(xx) == join_str(lit_loop(xx, 0, <<>>))

----------------------------------------------------------------------------
(* bin_value                                                               *)

\* the for loop of bin_value over t, the truth values bool(x) of the elements;
\* dig is only read when an element remains, where it is a whole number
RECURSIVE bin_value_loop(_, _, _, _)
bin_value_loop(t, k, val, dig) ==
    IF k > Len(t)
    THEN val
    ELSE bin_value_loop(t, k + 1, val + (IF t[k] THEN dig ELSE 0), dig \div 2)

\* bin_value of a list of ints
bin_value(l) ==
    bin_value_loop([k \in 1..Len(l) |-> bool_int(l[k])], 1, 0, Pow2(Len(l) - 1))

\* bin_value of a list of one-character strings
bin_value_chars(l) ==
    bin_value_loop([k \in 1..Len(l) |-> bool_str(l[k])], 1, 0, Pow2(Len(l) - 1))

----------------------------------------------------------------------------
(* bin_add                                                                 *)

\* [int(bool(x)) for x in l]
RECURSIVE int_bool_list(_)
int_bool_list(l) ==
    IF l = <<>> THEN <<>> ELSE <<int_bool(Head(l))>> \o int_bool_list(Tail(l))

\* one pass of the inner loop, from index k on
RECURSIVE add_pass(_, _, _)
add_pass(res, add, k) ==
    IF k > Len(res)
    THEN <<res, add>>
    ELSE LET r1 == [res EXCEPT ![k] = Xor(res[k], add[k])]
             a1 == [add EXCEPT ![k] = IF k < Len(res)
                                      THEN And(add[k + 1], r1[k + 1])
                                      ELSE 0]
         IN  add_pass(r1, a1, k + 1)

\* the outer loop: n more passes
RECURSIVE add_passes(_, _, _)
add_passes(res, add, n) ==
    IF n = 0
    THEN res
    ELSE LET st == add_pass(res, add, 1)
         IN  add_passes(st[1], st[2], n - 1)

\* bin_add_bits with one pass too few
bin_add_bits_short(la, lb) ==
    add_passes(int_bool_list(la), int_bool_list(lb),
               IF Len(la) = 0 THEN 0 ELSE Len(la) - 1)

\* the bits bin_add computes from the contents of two lists of equal length
bin_add_bits(la, lb) ==
    add_passes(int_bool_list(la), int_bool_list(lb), Len(la))

\* bin_add raising only when a is the longer list
bin_add_gt(h, pa, pb) ==
    IF Len(h[pa]) > Len(h[pb])
    THEN [heap |-> h, err |-> "ValueError", addr |-> 0]
    ELSE [heap |-> Append(h, bin_add_bits(h[pa], h[pb])),
          err |-> "none", addr |-> Len(h) + 1]

\* bin_add with res = a in place of a copy of a
bin_add_alias(h, pa, pb) ==
    IF Len(h[pa]) # Len(h[pb])
    THEN [heap |-> h, err |-> "ValueError", addr |-> 0]
    ELSE [heap |-> [k \in 1..Len(h) |->
                       IF k = pa THEN bin_add_bits(h[pa], h[pb]) ELSE h[k]],
          err |-> "none", addr |-> pa]

\* bin_add(a, b) on heap h: the heap after the call, the error raised
\* ("none" when it returns) and the identity of the returned list
bin_add(h, pa, pb) ==
    IF Len(h[pa]) # Len(h[pb])
    THEN [heap |-> h, err |-> "ValueError", addr |-> 0]
    ELSE [heap |-> Append(h, bin_add_bits(h[pa], h[pb])),
          err |-> "none", addr |-> Len(h) + 1]

----------------------------------------------------------------------------
(* get_dec2bin_dict, _dec2bin, dec2bin_array                               *)

\* the for loop of get_dec2bin_dict from k on: d is the dict so far, pbin and
\* pone the identities of the lists bound to `bin` and `one`
RECURSIVE dict_loop(_, _, _, _, _)
dict_loop(h, d, pbin, pone, k) ==
    IF k > 9
    THEN [heap |-> h, dict |-> d]
    ELSE LET r == bin_add(h, pbin, pone)
         IN  dict_loop(r.heap, (str(k) :> pbin) @@ d, r.addr, pone, k + 1)

get_dec2bin_dict ==
    dict_loop(<<<<0, 0, 0, 0>>, <<0, 0, 0, 1>>>>, <<>>, 1, 2, 0)

\* dec2bin_array(s) with table tab: the table's own lists, not copies
dec2bin_array(tab, st) == [k \in 1..Len(st) |-> tab[st[k]]]

----------------------------------------------------------------------------
(* floor_div_2                                                             *)

\* the content of the list floor_div_2 builds from a list with content la:
\* res[1:] = a[:-1] keeps res[:1] and replaces the rest
floor_div_2_bits(la) ==
    LET res == [k \in 1..Len(la) |-> 0]
    IN  SubSeq(res, 1, IF Len(res) < 1 THEN Len(res) ELSE 1)
            \o SubSeq(la, 1, Len(la) - 1)

\* floor_div_2 with res = a in place of a new list
floor_div_2_inplace(h, pa) ==
    [heap |-> [k \in 1..Len(h) |->
                  IF k = pa THEN floor_div_2_bits(h[pa]) ELSE h[k]],
     addr |-> pa]

\* floor_div_2(a) on heap h: a new list, a is not written
floor_div_2(h, pa) ==
    [heap |-> Append(h, floor_div_2_bits(h[pa])), addr |-> Len(h) + 1]

----------------------------------------------------------------------------
(* dec2bin                                                                 *)

\* x[-1]
last(l) == l[Len(l)]

\* np.any(rem[-1]): only the least significant group is tested
np_any_last(h, r) ==
    r # <<>> /\ \E j \in 1..Len(h[r[Len(r)]]) : h[r[Len(r)]][j] # 0

\* np.any(rem)
np_any(h, r) == \E k \in 1..Len(r) : \E j \in 1..Len(h[r[k]]) : h[r[k]][j] # 0

\* add built from rem[1:], each group's own shifted-out bit
dec2bin_add_own(h, tab, r) ==
    [k \in 1..(Len(r) - 1) |->
        IF bool_int(last(h[r[k + 1]])) THEN tab["5"] ELSE tab["0"]]

\* add with a correction of 6
dec2bin_add_6(h, tab, r) ==
    [k \in 1..(Len(r) - 1) |->
        IF bool_int(last(h[r[k]])) THEN tab["6"] ELSE tab["0"]]

\* add = [_dec2bin["5"] if x[-1] else _dec2bin["0"] for x in rem[:-1]]
dec2bin_add(h, tab, r) ==
    [k \in 1..(Len(r) - 1) |->
        IF bool_int(last(h[r[k]])) THEN tab["5"] ELSE tab["0"]]

\* rem = [floor_div_2(x) for x in rem], from index k on; out is the new list
RECURSIVE shift_all(_, _, _, _)
shift_all(h, r, k, out) ==
    IF k > Len(r)
    THEN [heap |-> h, rem |-> out]
    ELSE LET f == floor_div_2(h, r[k])
         IN  shift_all(f.heap, r, k + 1, Append(out, f.addr))

\* [bin_add(r, a) for r, a in zip(rem[1:], add)], from pair k on
RECURSIVE add_all(_, _, _, _, _)
add_all(h, r, add, k, out) ==
    IF k > Len(add) \/ k + 1 > Len(r)
    THEN [heap |-> h, err |-> "none", lst |-> out]
    ELSE LET c == bin_add(h, r[k + 1], add[k])
         IN  IF c.err # "none"
             THEN [heap |-> c.heap, err |-> c.err, lst |-> out]
             ELSE add_all(c.heap, r, add, k + 1, Append(out, c.addr))

\* reference counting: once rem is rebound, the lists only the old rem
\* referred to are freed.  Lists up to identity base belong to the caller
\* and stay; the lists of r are kept, in order of identity.
collect(h, base, r) ==
    LET live == {r[k] : k \in 1..Len(r)} \ (1..base)
        new(p) == IF p <= base THEN p
                  ELSE base + Cardinality({q \in live : q <= p})
    IN  [heap |-> [i \in 1..(base + Cardinality(live)) |->
                      IF i <= base THEN h[i]
                      ELSE h[CHOOSE p \in live : new(p) = i]],
         rem |-> [k \in 1..Len(r) |-> new(r[k])]]

\* the body of the while loop of dec2bin, entered with base lists alive
\* outside rem
dec2bin_body(h, base, tab, r, bn) ==
    LET bn1 == Append(bn, last(h[last(r)]))
        add == dec2bin_add(h, tab, r)
        sh  == shift_all(h, r, 1, <<>>)
        ad  == add_all(sh.heap, sh.rem, add, 1, <<>>)
        gc  == collect(ad.heap, base, SubSeq(sh.rem, 1, 1) \o ad.lst)
    IN  [heap |-> gc.heap, err |-> ad.err, bin |-> bn1, rem |-> gc.rem]

\* bin.reverse(); return "0b" + "".join(str(b) for b in bin)
dec2bin_result(bn) == <<"0", "b">> \o join_str(Reverse(bn))

----------------------------------------------------------------------------
(* The calls a program makes.                                              *)

NoRet == [err |-> "none", addr |-> 0, str |-> <<>>, arr |-> <<>>]

\* where a caller takes a list argument from: a list it builds itself, or
\* one of the table's lists obtained through dec2bin_array(c)[0]
ArgSrc ==
    [kind : {"new"}, bits : BitLists, key : {"0"}]
        \cup [kind : {"tab"}, bits : {<<>>}, key : DigitSet]

NoArg == [kind |-> "none", bits |-> <<>>, key |-> "0"]

\* the heap once the caller holds the argument, and the argument's identity
place(h, tab, src) ==
    IF src.kind = "new" THEN [heap |-> Append(h, src.bits), addr |-> Len(h) + 1]
    ELSE IF src.kind = "tab" THEN [heap |-> h, addr |-> dec2bin_array(tab, <<src.key>>)[1]]
    ELSE [heap |-> h, addr |-> 0]

\* number of list objects alive after the module is imported
HeapBase == Len(get_dec2bin_dict.heap)

\* a call of dec2bin on a string of n digits runs at most 4n iterations
\* (10^n < 2^(4n)); the guard of dec2bin_iter stops a longer run
IterCap(st) == 4 * Len(st)

Init ==
    /\ heap = get_dec2bin_dict.heap
    /\ _dec2bin = get_dec2bin_dict.dict
    /\ pc = "idle"
    /\ op = "none"
    /\ a = 0
    /\ b = 0
    /\ x = 0
    /\ s = <<>>
    /\ rem = <<>>
    /\ bin = <<>>
    /\ ret = NoRet

\* the caller binds its list arguments
caller_args ==
    /\ pc = "idle"
    /\ \E sa \in ArgSrc, sb \in ArgSrc \cup {NoArg} :
          LET pa == place(heap, _dec2bin, sa)
              pb == place(pa.heap, _dec2bin, sb)
          IN  /\ heap' = pb.heap
              /\ a' = pa.addr
              /\ b' = pb.addr
    /\ pc' = "ready"
    /\ UNCHANGED <<_dec2bin, op, x, s, rem, bin, ret>>

call_bin_add ==
    /\ pc = "ready"
    /\ b # 0
    /\ LET r == bin_add(heap, a, b)
       IN  /\ heap' = r.heap
           /\ ret' = [NoRet EXCEPT !.err = r.err, !.addr = r.addr]
    /\ pc' = "returned"
    /\ op' = "bin_add"
    /\ UNCHANGED <<_dec2bin, a, b, x, s, rem, bin>>

call_floor_div_2 ==
    /\ pc = "ready"
    /\ b = 0
    /\ LET r == floor_div_2(heap, a)
       IN  /\ heap' = r.heap
           /\ ret' = [NoRet EXCEPT !.addr = r.addr]
    /\ pc' = "returned"
    /\ op' = "floor_div_2"
    /\ UNCHANGED <<_dec2bin, a, b, x, s, rem, bin>>

call_dec2bin_array ==
    /\ pc = "idle"
    /\ \E st \in DigitStrings :
          /\ s' = st
          /\ ret' = [NoRet EXCEPT !.arr = dec2bin_array(_dec2bin, st)]
    /\ pc' = "returned"
    /\ op' = "dec2bin_array"
    /\ UNCHANGED <<heap, _dec2bin, a, b, x, rem, bin>>

call_binary_int32_big ==
    /\ pc = "idle"
    /\ \E xx \in 0..(2^Width - 1) :
          /\ x' = xx
          /\ ret' = [NoRet EXCEPT !.str = binary_int32_big(xx)]
    /\ pc' = "returned"
    /\ op' = "binary_int32_big"
    /\ UNCHANGED <<heap, _dec2bin, a, b, s, rem, bin>>

call_binary_int32_lit ==
    /\ pc = "idle"
    /\ \E xx \in 0..(2^Width - 1) :
          /\ x' = xx
          /\ ret' = [NoRet EXCEPT !.str = binary_int32_lit(xx)]
    /\ pc' = "returned"
    /\ op' = "binary_int32_lit"
    /\ UNCHANGED <<heap, _dec2bin, a, b, s, rem, bin>>

\* dec2bin(s) up to the first test of the loop condition
dec2bin_enter ==
    /\ pc = "idle"
    /\ \E st \in DigitStrings :
          /\ s' = st
          /\ rem' = dec2bin_array(_dec2bin, st)
    /\ bin' = <<>>
    /\ pc' = "dec2bin"
    /\ op' = "dec2bin"
    /\ UNCHANGED <<heap, _dec2bin, a, b, x, ret>>

\* one iteration of the while loop
dec2bin_iter ==
    /\ pc = "dec2bin"
    /\ np_any(heap, rem)
    /\ Len(bin) < IterCap(s)
    /\ \E it \in {dec2bin_body(heap, HeapBase, _dec2bin, rem, bin)} :
           /\ heap' = it.heap
           /\ bin' = it.bin
           /\ rem' = it.rem
           /\ IF it.err = "none"
              THEN pc' = "dec2bin" /\ ret' = ret
              ELSE pc' = "returned" /\ ret' = [NoRet EXCEPT !.err = it.err]
    /\ UNCHANGED <<_dec2bin, op, a, b, x, s>>

\* the loop condition is false: reverse, join and return
dec2bin_return ==
    /\ pc = "dec2bin"
    /\ ~np_any(heap, rem)
    /\ ret' = [NoRet EXCEPT !.str = dec2bin_result(bin)]
    /\ pc' = "returned"
    /\ UNCHANGED <<heap, _dec2bin, op, a, b, x, s, rem, bin>>

\* the caller drops the result and its own lists; the table stays
caller_done ==
    /\ pc = "returned"
    /\ heap' = SubSeq(heap, 1, HeapBase)
    /\ pc' = "idle"
    /\ op' = "none"
    /\ a' = 0
    /\ b' = 0
    /\ x' = 0
    /\ s' = <<>>
    /\ rem' = <<>>
    /\ bin' = <<>>
    /\ ret' = NoRet
    /\ UNCHANGED _dec2bin

Next ==
    \/ caller_args
    \/ call_bin_add
    \/ call_floor_div_2
    \/ call_dec2bin_array
    \/ call_binary_int32_big
    \/ call_binary_int32_lit
    \/ dec2bin_enter
    \/ dec2bin_iter
    \/ dec2bin_return
    \/ caller_done

Spec == Init /\ [][Next]_vars

\* ENABLED <<dec2bin_iter>>_vars, written as the guard of the action
can_iter == pc = "dec2bin" /\ np_any(heap, rem) /\ Len(bin) < IterCap(s)

\* the interpreter keeps running the loop and returns when it ends: weak
\* fairness of dec2bin_return and of dec2bin_iter, the latter spelled out as
\* <>[]ENABLED <<A>>_vars => []<><<A>>_vars with the guard for ENABLED
FairSpec ==
    /\ Spec
    /\ WF_vars(dec2bin_return)
    /\ <>[]can_iter => []<><<pc = "dec2bin" /\ bin' # bin>>_vars

----------------------------------------------------------------------------
(* Notions the properties are stated in.                                   *)

\* the integer a decimal digit string denotes
RECURSIVE dec_value(_)
dec_value(st) ==
    IF st = <<>> THEN 0
    ELSE 10 * dec_value(SubSeq(st, 1, Len(st) - 1)) + int(st[Len(st)])

\* the integer a string of binary digits denotes
RECURSIVE bits_value(_)
bits_value(st) ==
    IF st = <<>> THEN 0
    ELSE 2 * bits_value(SubSeq(st, 1, Len(st) - 1)) + int(st[Len(st)])

\* Python's int(st, 2): an optional "0b" prefix, then at least one binary
\* digit; anything else raises ValueError, here -1
int_2(st) ==
    LET body == IF Len(st) >= 2 /\ st[1] = "0" /\ st[2] = "b"
                THEN SubSeq(st, 3, Len(st)) ELSE st
    IN  IF body = <<>> \/ \E k \in 1..Len(body) : body[k] \notin {"0", "1"}
        THEN -1
        ELSE bits_value(body)

\* [int(c) for c in st]
int_list(st) == [k \in 1..Len(st) |-> int(st[k])]

\* value of digit group k of rem on heap h
group(h, r, k) == bin_value(h[r[k]])

\* the decimal number the digit groups r[1..n] represent, most significant first
RECURSIVE groups_value(_, _, _)
groups_value(h, r, n) ==
    IF n = 0 THEN 0 ELSE 10 * groups_value(h, r, n - 1) + group(h, r, n)

\* the shifted-out bit of digit group k
lsb(h, r, k) == int_bool(last(h[r[k]]))

\* a step of the while loop of dec2bin that stays in the loop
iter_step == pc = "dec2bin" /\ pc' = "dec2bin" /\ bin' # bin

in_dec2bin == op = "dec2bin" /\ pc \in {"dec2bin", "returned"} /\ ret.err = "none"

returned(f) == pc = "returned" /\ op = f

----------------------------------------------------------------------------
(* C1: for bit arrays a and b of the same length n, bin_add(a, b) returns   *)
(* an array r of length n with                                             *)
(* bin_value(r) = (bin_value(a) + bin_value(b)) % 2^n.                     *)
C1_bin_add_mod_2n ==
    (returned("bin_add") /\ Len(heap[a]) = Len(heap[b])) =>
        /\ ret.err = "none"
        /\ ret.addr \in DOMAIN heap
        /\ Len(heap[ret.addr]) = Len(heap[a])
        /\ \A k \in 1..Len(heap[ret.addr]) : heap[ret.addr][k] \in Bit
        /\ bin_value(heap[ret.addr]) =
              (bin_value(heap[a]) + bin_value(heap[b])) % 2^Len(heap[a])

\* [0,1,1,1] + [0,1,0,1] gave [1,1,0,0]
C1_witness ==
    /\ returned("bin_add")
    /\ a > HeapBase /\ b > HeapBase
    /\ heap[a] = <<0, 1, 1, 1>>
    /\ heap[b] = <<0, 1, 0, 1>>
    /\ ret.addr # 0
    /\ heap[ret.addr] = <<1, 1, 0, 0>>

(* C2: for every decimal digit string s denoting n, dec2bin(s) is "0b"     *)
(* followed by binary digits and int(dec2bin(s), 2) = n.                   *)
C2_dec2bin_round_trip ==
    returned("dec2bin") =>
        /\ Len(ret.str) >= 2 /\ ret.str[1] = "0" /\ ret.str[2] = "b"
        /\ int_2(ret.str) = dec_value(s)

(* C3: bin_add raises ValueError exactly when the lengths differ; then no  *)
(* result list exists and the heap (a and b included) is as before the     *)
(* call; no other library function raises.                                 *)
C3_bin_add_length_error ==
    /\ [](returned("bin_add") =>
            /\ (ret.err = "ValueError") <=> (Len(heap[a]) # Len(heap[b]))
            /\ ret.err \in {"none", "ValueError"}
            /\ (ret.err = "ValueError") <=> (ret.addr = 0))
    /\ [](ret.err # "none" => op = "bin_add")
    /\ [][(pc = "ready" /\ op' = "bin_add") =>
            /\ heap'[a] = heap[a]
            /\ heap'[b] = heap[b]
            /\ (ret'.err = "ValueError" => heap' = heap)]_vars

\* bin_add([0,1], [0,0,1]) raised
C3_witness ==
    /\ returned("bin_add")
    /\ heap[a] = <<0, 1>>
    /\ heap[b] = <<0, 0, 1>>
    /\ ret.err = "ValueError"

\* two empty lists were added without an error
C3_witness_empty ==
    /\ returned("bin_add")
    /\ heap[a] = <<>> /\ heap[b] = <<>>
    /\ ret.err = "none"

(* C4 as stated: binary_int32_big(x) is a string of Width characters '0' / *)
(* '1' and bin_value of the list of its characters is x.                   *)
C4_big_chars_value ==
    returned("binary_int32_big") =>
        /\ Len(ret.str) = Width
        /\ \A k \in 1..Len(ret.str) : ret.str[k] \in {"0", "1"}
        /\ bin_value_chars(ret.str) = x

(* C4 amended: binary_int32_big(x) is a string of Width characters '0' /   *)
(* '1', most significant first, and bin_value of the list of its digits    *)
(* converted to integers, [int(c) for c in the string], is x.              *)
C4_big_digits_value ==
    returned("binary_int32_big") =>
        /\ Len(ret.str) = Width
        /\ \A k \in 1..Len(ret.str) : ret.str[k] \in {"0", "1"}
        /\ bin_value(int_list(ret.str)) = x

\* x = 5 was encoded: ...101
C4_witness ==
    /\ returned("binary_int32_big")
    /\ x = 5
    /\ SubSeq(ret.str, Len(ret.str) - 2, Len(ret.str)) = <<"1", "0", "1">>

(* C5: for 0 <= x < 2^Width the string binary_int32_big(x) reversed is     *)
(* binary_int32_lit(x).                                                    *)
C5_big_reversed_is_lit ==
    /\ returned("binary_int32_big") =>
          Len(ret.str) = Width /\ Reverse(ret.str) = binary_int32_lit(x)
    /\ returned("binary_int32_lit") =>
          Len(ret.str) = Width /\ Reverse(binary_int32_big(x)) = ret.str

\* x = 6 was encoded least significant bit first: 011...
C5_witness ==
    /\ returned("binary_int32_lit")
    /\ x = 6
    /\ SubSeq(ret.str, 1, 3) = <<"0", "1", "1">>

(* C6: floor_div_2(a) returns a new list of the length of a with 0 at      *)
(* index 0 and a[0..len-2] behind it, so its value is bin_value(a) // 2;   *)
(* a is left unchanged.                                                    *)
C6_floor_div_2_shifts ==
    /\ [](returned("floor_div_2") =>
            /\ ret.addr \in DOMAIN heap
            /\ ret.addr # a
            /\ Len(heap[ret.addr]) = Len(heap[a])
            /\ (Len(heap[a]) > 0 => heap[ret.addr][1] = 0)
            /\ \A k \in 2..Len(heap[a]) : heap[ret.addr][k] = heap[a][k - 1]
            /\ bin_value(heap[ret.addr]) = bin_value(heap[a]) \div 2)
    /\ [][(pc = "ready" /\ op' = "floor_div_2") => heap'[a] = heap[a]]_vars

\* the caller's own [1,1,0,1] gave [0,1,1,0]
C6_witness ==
    /\ returned("floor_div_2")
    /\ a > HeapBase
    /\ heap[a] = <<1, 1, 0, 1>>
    /\ heap[ret.addr] = <<0, 1, 1, 0>>

(* C7 as stated: in an iteration every digit group is shifted right by     *)
(* one; each group except the least significant one then receives 5 when   *)
(* its shifted-out bit was 1; the least significant group receives no      *)
(* correction.                                                             *)
C7_correction_except_least ==
    [][iter_step =>
        LET n == Len(rem) IN
        /\ Len(rem') = n
        /\ \A k \in 1..(n - 1) :
              group(heap', rem', k) =
                  (group(heap, rem, k) \div 2 + 5 * lsb(heap, rem, k)) % 16
        /\ group(heap', rem', n) = group(heap, rem, n) \div 2]_vars

(* C7 amended: in an iteration every digit group is shifted right by one;  *)
(* each group except the most significant one then receives 5 when the bit *)
(* shifted out of the next more significant group was 1; the most          *)
(* significant group receives no correction.                               *)
C7_correction_except_most ==
    [][iter_step =>
        LET n == Len(rem) IN
        /\ Len(rem') = n
        /\ group(heap', rem', 1) = group(heap, rem, 1) \div 2
        /\ \A k \in 2..n :
              group(heap', rem', k) =
                  (group(heap, rem, k) \div 2 + 5 * lsb(heap, rem, k - 1)) % 16]_vars

\* "30" after one iteration: the least significant group received 5
C7_witness ==
    /\ pc = "dec2bin"
    /\ s = <<"3", "0">>
    /\ Len(bin) = 1
    /\ group(heap, rem, 1) = 1
    /\ group(heap, rem, 2) = 5

(* C8: while dec2bin(s) runs, rem holds len(s) digit groups, each a list   *)
(* of 4 bits with a value in 0..9, and the shift plus correction of the    *)
(* next iteration stays below 16.                                          *)
C8_groups_are_bcd ==
    in_dec2bin =>
        /\ Len(rem) = Len(s)
        /\ \A k \in 1..Len(rem) :
              /\ rem[k] \in DOMAIN heap
              /\ Len(heap[rem[k]]) = 4
              /\ \A j \in 1..4 : heap[rem[k]][j] \in Bit
              /\ group(heap, rem, k) \in 0..9
        /\ \A k \in 2..Len(rem) :
              group(heap, rem, k) \div 2 + 5 * lsb(heap, rem, k - 1) < 16

\* a group was corrected from 4 to 9
C8_witness ==
    /\ pc = "dec2bin"
    /\ Len(bin) >= 1
    /\ Len(rem) >= 2
    /\ group(heap, rem, Len(rem)) = 9
    /\ rem[Len(rem)] > HeapBase

(* C9: the loop of dec2bin(s) terminates: an iteration runs only while     *)
(* some group is non-zero and halves (floor) the number the groups         *)
(* represent, the all-zero state is reached, and the bits collected, in    *)
(* reverse order, are returned.                                            *)
C9_dec2bin_terminates ==
    /\ (pc = "dec2bin") ~> (pc = "returned")
    /\ [][iter_step =>
            /\ groups_value(heap, rem, Len(rem)) # 0
            /\ groups_value(heap', rem', Len(rem')) =
                  groups_value(heap, rem, Len(rem)) \div 2]_vars
    /\ [](returned("dec2bin") =>
            /\ ret.err = "none"
            /\ groups_value(heap, rem, Len(rem)) = 0
            /\ Len(ret.str) = Len(bin) + 2
            /\ \A k \in 1..Len(bin) : ret.str[2 + k] = str(bin[Len(bin) + 1 - k]))

\* dec2bin("99") returned after 7 iterations
C9_witness ==
    /\ returned("dec2bin")
    /\ s = <<"9", "9">>
    /\ Len(bin) = 7
    /\ ret.str = <<"0", "b", "1", "1", "0", "0", "0", "1", "1">>

(* C10: the table maps each digit character d to a list of its own, 4 bits *)
(* with value d, and no step changes the table or the content of one of    *)
(* its lists.                                                              *)
C10_table_read_only ==
    /\ [](/\ DOMAIN _dec2bin = DigitSet
          /\ \A c \in DigitSet :
                /\ _dec2bin[c] \in DOMAIN heap
                /\ Len(heap[_dec2bin[c]]) = 4
                /\ \A j \in 1..4 : heap[_dec2bin[c]][j] \in Bit
                /\ bin_value(heap[_dec2bin[c]]) = int(c)
          /\ \A c, d \in DigitSet : c # d => _dec2bin[c] # _dec2bin[d])
    /\ [][/\ _dec2bin' = _dec2bin
          /\ \A c \in DigitSet : heap'[_dec2bin[c]] = heap[_dec2bin[c]]]_vars

\* floor_div_2 was handed the table's own list for "5"
C10_witness ==
    /\ returned("floor_div_2")
    /\ a = _dec2bin["5"]
    /\ heap[a] = <<0, 1, 0, 1>>
    /\ heap[ret.addr] = <<0, 0, 1, 0>>

====
